---------------------------- MODULE Spec2Model ----------------------------
(***************************************************************************)
(* BorrowBuddy exchange: the listing, booking and dashboard views of the   *)
(* single-page application and the backend tables (resources, bookings)    *)
(* with their constraints and row-level policies, as one state machine.    *)
(* Every handler awaits exactly one backend request (the dashboard's load  *)
(* issues three in a row); the backend runs each request as one statement  *)
(* and the continuation only touches the issuing session's view state, so  *)
(* a handler is one action.  Sessions interleave at handler granularity.   *)
(***************************************************************************)
EXTENDS Integers, Sequences, FiniteSets, TLC

(***************************************************************************)
(* Bounds of the model.                                                    *)
(***************************************************************************)
\* number of booking rows ever inserted
MaxBookings == 2
\* number of booking rows inserted in SpecForm, where rows vary in every field
MaxFormBookings == 1
\* number of resource rows ever inserted through the add-resource form
MaxResources == 1

(***************************************************************************)
(* Identities, sessions, values.                                           *)
(***************************************************************************)
\* the value of `user` (useAuth) when nobody is signed in
NoUser == "null"
Sessions == {"s1", "s2"}

\* null in place of a row (no resource loaded, no joined row)
Null == [null |-> TRUE]

\* null in place of a text (resources.description is nullable)
NullText == << "null" >>

\* the empty string of a form field
EmptyStr == << >>

\* A datetime-local value "2025-01-(1+d)Thh:00" is the pair <<d, hh>>.
Date(d, h) == << d, h >>

\* the <option> values of the payment method select
PaymentMethods == {"card", "paypal", "cash"}

\* texts of the resource rows and of the search box, as character sequences
TitleDrill == << "D", "r", "i", "l", "l" >>
TitleBike == << "B", "i", "k", "e" >>
LocOslo == << "O", "s", "l", "o" >>
LocRome == << "R", "o", "m", "e" >>
DescRed == << "R", "e", "d" >>

\* what is typed into the search box, and the category options selected
SearchTerms ==
  {EmptyStr, << "O" >>, << "r", "e", "d" >>, << "i", "k" >>, << "D", "R" >>,
   << "x" >>}
CategoryInputs == {"", "Tools", "Vehicles", "Books"}

(***************************************************************************)
(* The backend schema.                                                     *)
(***************************************************************************)
\* a CHECK that also lists 'rejected'
BookingStatusCheckWithRejected ==
  {"pending", "confirmed", "cancelled", "completed", "rejected"}

\* bookings.status CHECK (status IN (...))
BookingStatusCheck == {"pending", "confirmed", "cancelled", "completed"}

VARIABLES
  resources,   \* table public.resources: a set of rows
  bookings,    \* table public.bookings: a set of rows
  nextId,      \* the next booking row's id (ids are never reused)
  user,        \* session -> the signed-in identity, or NoUser
  route,       \* session -> the mounted page
  bookView,    \* session -> state of the BookResource component
  dashView,    \* session -> state of the Dashboard component
  listView,    \* session -> state of the Resources component
  addView,     \* session -> state of the AddResource component
  nextResource, \* how many resource rows have been inserted so far
  last         \* what the last handler did: request issued, outcome, toast

vars ==
  << resources, bookings, nextId, user, route, bookView, dashView, listView,
     addView, nextResource, last >>


(***************************************************************************)
(* Generic helpers.                                                        *)
(***************************************************************************)
Max(a, b) == IF a >= b THEN a ELSE b

\* Math.floor in place of Math.ceil
CeilAsFloor(a, b) == a \div b

\* Math.ceil(a / b) for b > 0 (integer a)
Ceil(a, b) == -((-a) \div b)

\* rows of a result set in `.order("created_at", { ascending: false })` order
RECURSIVE OrderDesc(_)
OrderDesc(S) ==
  IF S = {} THEN << >>
  ELSE LET r == CHOOSE x \in S : \A y \in S : y.created_at <= x.created_at
       IN << r >> \o OrderDesc(S \ {r})

\* Array.prototype.map on a sequence (filter is SelectSeq)
MapSeq(q, F(_)) == [i \in 1..Len(q) |-> F(q[i])]

Elems(q) == {q[i] : i \in 1..Len(q)}

(***************************************************************************)
(* The backend: row-level policies, constraints and the statements the     *)
(* application issues.  uid is auth.uid() of the requesting session.       *)
(***************************************************************************)
\* SELECT policies that let every identity read every row
ResourceReadableByAnyone(r, uid) == TRUE

\* "Anyone can view available resources" OR "Users can view their own resources"
ResourceReadable(r, uid) == r.is_available = TRUE \/ r.owner_id = uid

\* a DELETE policy that lets every identity delete every row it can read
ResourceDeletableByAnyone(r, uid) == TRUE

\* "Users can delete their own resources"
ResourceDeletable(r, uid) == r.owner_id = uid

\* "Users can update their own resources" USING; with no WITH CHECK clause
\* the same expression is also checked on the updated row
ResourceUpdatable(r, uid) == r.owner_id = uid

\* "Users can insert their own resources" WITH CHECK
ResourceInsertPolicy(r, uid) == r.owner_id = uid

\* table constraints of public.resources on a new row: CHECK (price >= 0)
\* and the NOT NULL timestamps ('' is not a timestamp)
ResourceConstraints(r) ==
  /\ r.price >= 0
  /\ r.availability_start # EmptyStr /\ r.availability_end # EmptyStr

\* INSERT INTO resources: accepted or refused as a whole
ResourceInsertAccepted(r, uid) == ResourceInsertPolicy(r, uid) /\ ResourceConstraints(r)

\* "Users can view their bookings as renter" OR "... as owner"
BookingReadable(b, uid) == b.renter_id = uid \/ b.owner_id = uid

\* "Users can insert bookings as renter" WITH CHECK
BookingInsertPolicy(b, uid) == b.renter_id = uid

\* "Users can update bookings as renter or owner" USING
BookingUpdatable(b, uid) == b.renter_id = uid \/ b.owner_id = uid

\* the constraints without the CHECK on status
BookingConstraintsNoStatusCheck(b) ==
  /\ \E r \in resources : r.id = b.resource_id
  /\ b.start_time # EmptyStr /\ b.end_time # EmptyStr
  /\ b.total_price >= 0

\* table constraints of public.bookings on a new or updated row: the foreign
\* key to resources, the NOT NULL timestamps, and the two CHECKs
BookingConstraints(b) ==
  /\ \E r \in resources : r.id = b.resource_id
  /\ b.start_time # EmptyStr /\ b.end_time # EmptyStr
  /\ b.total_price >= 0
  /\ b.status \in BookingStatusCheck

\* an insert that is refused when the resource already has a booking whose
\* window overlaps the new row's
BookingInsertExclusive(b, uid) ==
  /\ BookingInsertPolicy(b, uid)
  /\ BookingConstraints(b)
  /\ ~\E x \in bookings :
        /\ x.resource_id = b.resource_id
        /\ x.start_time[1] <= b.end_time[1] /\ b.start_time[1] <= x.end_time[1]

\* an insert that is refused unless the resource is available at that time
BookingInsertIfAvailable(b, uid) ==
  /\ BookingInsertPolicy(b, uid)
  /\ BookingConstraints(b)
  /\ \E r \in resources : r.id = b.resource_id /\ r.is_available = TRUE

\* INSERT INTO bookings: accepted or refused as a whole
BookingInsertAccepted(b, uid) == BookingInsertPolicy(b, uid) /\ BookingConstraints(b)

\* the rows an UPDATE bookings ... WHERE id = bid may touch
BookingUpdateTargets(bid, uid) ==
  {b \in bookings : b.id = bid /\ BookingReadable(b, uid) /\ BookingUpdatable(b, uid)}

\* UPDATE bookings SET status = st WHERE id = bid raises an error iff a
\* touched row would violate a constraint
BookingUpdateAccepted(bid, st, uid) ==
  \A b \in BookingUpdateTargets(bid, uid) : BookingConstraints([b EXCEPT !.status = st])

BookingsAfterUpdate(bid, st, uid) ==
  {IF b \in BookingUpdateTargets(bid, uid) THEN [b EXCEPT !.status = st] ELSE b : b \in bookings}

\* DELETE FROM resources WHERE id = rid, with bookings.resource_id ON DELETE CASCADE
ResourceDeleteTargets(rid, uid) ==
  {r \in resources : r.id = rid /\ ResourceReadable(r, uid) /\ ResourceDeletable(r, uid)}

ResourcesAfterDelete(rid, uid) == resources \ ResourceDeleteTargets(rid, uid)

\* a foreign key without ON DELETE CASCADE that lets the bookings stay
BookingsAfterDeleteNoCascade(rid, uid) == bookings

BookingsAfterDelete(rid, uid) ==
  {b \in bookings : \E r \in ResourcesAfterDelete(rid, uid) : r.id = b.resource_id}

\* UPDATE resources SET is_available = flag, owner_id = owner WHERE id = rid
ResourceUpdateTargets(rid, uid) ==
  {r \in resources : r.id = rid /\ ResourceReadable(r, uid) /\ ResourceUpdatable(r, uid)}

\* an UPDATE policy whose expression is not checked on the updated row
ResourceUpdateAcceptedUnchecked(rid, flag, owner, uid) == TRUE

ResourceUpdateAccepted(rid, flag, owner, uid) ==
  \A r \in ResourceUpdateTargets(rid, uid) :
    ResourceUpdatable([r EXCEPT !.is_available = flag, !.owner_id = owner], uid)

ResourcesAfterUpdate(rid, flag, owner, uid) ==
  {IF r \in ResourceUpdateTargets(rid, uid)
   THEN [r EXCEPT !.is_available = flag, !.owner_id = owner]
   ELSE r : r \in resources}

\* the embedded `resources ( id, title, category, price, location, image_url )`
JoinedResource(b, uid) ==
  LET rs == {r \in resources : r.id = b.resource_id /\ ResourceReadable(r, uid)}
  IN IF rs = {} THEN Null
     ELSE LET r == CHOOSE x \in rs : TRUE
          IN [id |-> r.id, title |-> r.title, category |-> r.category,
              price |-> r.price, location |-> r.location]

WithJoin(b, uid) ==
  [id |-> b.id, resource_id |-> b.resource_id, renter_id |-> b.renter_id,
   owner_id |-> b.owner_id, start_time |-> b.start_time, end_time |-> b.end_time,
   total_price |-> b.total_price, status |-> b.status,
   payment_method |-> b.payment_method, created_at |-> b.created_at,
   resources |-> JoinedResource(b, uid)]

(***************************************************************************)
(* Initial state: the backend holds two resources and no booking; every    *)
(* session is on the landing page with no page component mounted.          *)
(***************************************************************************)
ResourceRow(id, owner, avail, price, title, desc, cat, loc, created) ==
  [id |-> id, owner_id |-> owner, is_available |-> avail, price |-> price,
   title |-> title, description |-> desc, category |-> cat, location |-> loc,
   created_at |-> created]

\* the resources table when the application starts
InitialResources ==
  {ResourceRow("r1", "u1", TRUE, 10, TitleDrill, DescRed, "Tools", LocOslo, 1),
   ResourceRow("r2", "u2", FALSE, 5, TitleBike, NullText, "Vehicles", LocRome, 2)}

ResourceIds == {"r1", "r2"}

\* who is signed in, in each of the two browser sessions: the owner of r1
\* and a renter, two renters, the owner twice, a visitor and a renter
SignedIn ==
  {[s1 |-> "u1", s2 |-> "u2"],
   [s1 |-> "u2", s2 |-> "u3"],
   [s1 |-> "u1", s2 |-> "u1"],
   [s1 |-> NoUser, s2 |-> "u2"]}

\* The bookings table when the two sessions start: empty, or, when both
\* sessions are the owner's, holding the request u2 made for r1 in an
\* earlier session (the row handleBooking stores for the window below,
\* which Spec reaches from the empty table: EarlierBookingStored).
WindowStart == Date(1, 0)
WindowEnd == Date(2, 1)

EarlierBooking ==
  [id |-> 1, created_at |-> 1, resource_id |-> "r1", renter_id |-> "u2",
   owner_id |-> "u1", start_time |-> WindowStart, end_time |-> WindowEnd,
   payment_method |-> "card", total_price |-> 2 * 10, status |-> "pending"]

InitialBookings(signedIn) ==
  IF \A s \in Sessions : signedIn[s] = "u1" THEN {EarlierBooking} ELSE {}

\* useState initial values of BookResource, Dashboard and Resources
BookInit(id) ==
  [id |-> id, resource |-> Null, loading |-> TRUE, startDate |-> EmptyStr,
   endDate |-> EmptyStr, paymentMethod |-> "card"]

DashInit ==
  [myResources |-> << >>, myBookings |-> << >>, resourceBookings |-> << >>,
   loading |-> TRUE]

\* a listing that starts from rows kept from an earlier load
ListInitCached ==
  [resources |-> OrderDesc(InitialResources), loading |-> TRUE,
   searchTerm |-> EmptyStr, selectedCategory |-> ""]

ListInit ==
  [resources |-> << >>, loading |-> TRUE, searchTerm |-> EmptyStr,
   selectedCategory |-> ""]

\* useState initial values of AddResource (image_url is left out: it is
\* stored and never read)
AddInit ==
  [formData |-> [title |-> EmptyStr, description |-> EmptyStr, category |-> "",
                 price |-> EmptyStr, location |-> EmptyStr,
                 availability_start |-> EmptyStr, availability_end |-> EmptyStr],
   loading |-> FALSE]

\* the record of one run of an async handler: the request it sent (table = ""
\* when it sent none), the error the request came back with ("" for none,
\* "network" when it never reached the backend, "backend" when the backend
\* refused it), and the toast shown; sent counts the requests issued, rid
\* is the resource id a request on the resources table names, and rows is
\* the answer to a statement sent outside the views
Event(s, fn, table, op, id, status, err, toast) ==
  [sess |-> s, fn |-> fn, table |-> table, op |-> op, id |-> id,
   status |-> status, err |-> err, toast |-> toast,
   sent |-> IF table = "" THEN 0 ELSE 1, rid |-> "", rows |-> {}]

\* after a step that runs no async handler (a link, a form field)
Idle == Event("", "", "", "", 0, "", "", "")

\* the error of a request: net = FALSE when it fails in transit
Failure(net, accepted) ==
  IF ~net THEN "network" ELSE IF ~accepted THEN "backend" ELSE ""

Init ==
  /\ resources = InitialResources
  /\ user \in SignedIn
  /\ bookings = InitialBookings(user)
  /\ nextId = Cardinality(bookings) + 1
  /\ route = [s \in Sessions |-> "/"]
  /\ bookView = [s \in Sessions |-> BookInit("")]
  /\ dashView = [s \in Sessions |-> DashInit]
  /\ listView = [s \in Sessions |-> ListInit]
  /\ addView = [s \in Sessions |-> AddInit]
  /\ nextResource = 1
  /\ last = Idle

(***************************************************************************)
(* Navigation: a route change unmounts the page component and mounts the   *)
(* new one with its initial state; the mount effect of BookResource and    *)
(* Dashboard redirects to /auth when no identity is present.               *)
(***************************************************************************)
\* mount effects without the `if (!user)` redirect
LandingNoRedirect(s, path) == path

Landing(s, path) ==
  IF path \in {"/book", "/dashboard", "/add-resource"} /\ user[s] = NoUser
  THEN "/auth"
  ELSE path

Goto(s, path, id) ==
  /\ route' = [route EXCEPT ![s] = Landing(s, path)]
  /\ bookView' = [bookView EXCEPT ![s] = BookInit(IF Landing(s, path) = "/book" THEN id ELSE "")]
  /\ dashView' = [dashView EXCEPT ![s] = DashInit]
  /\ listView' = [listView EXCEPT ![s] = ListInit]
  /\ addView' = [addView EXCEPT ![s] = AddInit]

\* the user follows a link or opens a URL; a redirect by a mount effect is
\* recorded with the component that redirected
Visit(s, path, id) ==
  /\ Goto(s, path, id)
  /\ last' = IF Landing(s, path) = path THEN Idle
             ELSE Event(s, IF path = "/book" THEN "BookResource"
                           ELSE IF path = "/dashboard" THEN "Dashboard"
                           ELSE "AddResource",
                        "", "", 0, "", "", "")
  /\ UNCHANGED << resources, bookings, nextId, user, nextResource >>

(***************************************************************************)
(* Resources (listing view).                                               *)
(***************************************************************************)
\* the listing query without .eq("is_available", true)
ListingQueryAll(r) == TRUE

\* .from("resources").select("*").eq("is_available", true)
ListingQuery(r) == r.is_available = TRUE

FetchResources(s, net) ==
  /\ route[s] = "/resources"
  /\ listView[s].loading
  /\ LET data == OrderDesc({r \in resources :
                               ListingQuery(r) /\ ResourceReadable(r, user[s])})
         error == Failure(net, TRUE)
     IN /\ listView' = [listView EXCEPT ![s] =
                          [@ EXCEPT !.resources = IF error # "" THEN @ ELSE data,
                                    !.loading = FALSE]]
        /\ last' = Event(s, "fetchResources", "resources", "select", 0, "", error,
                         IF error # "" THEN "Failed to load resources" ELSE "")
  /\ UNCHANGED << resources, bookings, nextId, user, route, bookView, dashView,
               addView, nextResource >>

SetSearchTerm(s, term) ==
  /\ route[s] = "/resources"
  /\ ~listView[s].loading
  /\ listView[s].searchTerm # term
  /\ listView' = [listView EXCEPT ![s].searchTerm = term]
  /\ last' = Idle
  /\ UNCHANGED << resources, bookings, nextId, user, route, bookView, dashView,
               addView, nextResource >>

SetSelectedCategory(s, cat) ==
  /\ route[s] = "/resources"
  /\ ~listView[s].loading
  /\ listView[s].selectedCategory # cat
  /\ listView' = [listView EXCEPT ![s].selectedCategory = cat]
  /\ last' = Idle
  /\ UNCHANGED << resources, bookings, nextId, user, route, bookView, dashView,
               addView, nextResource >>

\* String.prototype.toLowerCase, character by character
UpperCase == << "A", "B", "D", "E", "I", "K", "L", "M", "O", "R", "S" >>
LowerCase == << "a", "b", "d", "e", "i", "k", "l", "m", "o", "r", "s" >>

toLowerCaseChar(c) ==
  IF \E i \in 1..Len(UpperCase) : UpperCase[i] = c
  THEN LowerCase[CHOOSE i \in 1..Len(UpperCase) : UpperCase[i] = c]
  ELSE c

toLowerCase(str) == [i \in 1..Len(str) |-> toLowerCaseChar(str[i])]

\* String.prototype.includes
includes(str, sub) ==
  \E i \in 0..(Len(str) - Len(sub)) : SubSeq(str, i + 1, i + Len(sub)) = sub

\* a search that compares the term as typed, without lower-casing it
matchesSearchCaseSensitive(resource, searchTerm) ==
  \/ includes(toLowerCase(resource.title), searchTerm)
  \/ (resource.description # NullText
        /\ includes(toLowerCase(resource.description), searchTerm))
  \/ includes(toLowerCase(resource.location), searchTerm)

matchesSearch(resource, searchTerm) ==
  \/ includes(toLowerCase(resource.title), toLowerCase(searchTerm))
  \/ (resource.description # NullText
        /\ includes(toLowerCase(resource.description), toLowerCase(searchTerm)))
  \/ includes(toLowerCase(resource.location), toLowerCase(searchTerm))

matchesCategory(resource, selectedCategory) ==
  selectedCategory = "" \/ resource.category = selectedCategory

\* the cards the listing view renders
filteredResources(s) ==
  LET Keep(resource) ==
        /\ matchesSearch(resource, listView[s].searchTerm)
        /\ matchesCategory(resource, listView[s].selectedCategory)
  IN SelectSeq(listView[s].resources, Keep)

(***************************************************************************)
(* BookResource (booking view).                                            *)
(***************************************************************************)
MsPerHour == 1000 * 60 * 60
MsPerDay == 1000 * 60 * 60 * 24

\* new Date(value).getTime(), relative to 2025-01-01T00:00 local time
getTime(value) == value[1] * MsPerDay + value[2] * MsPerHour

\* the booking view's query without .eq("is_available", true)
ResourceQueryById(r, id) == r.id = id

\* .from("resources").select("*").eq("id", id).eq("is_available", true)
ResourceQuery(r, id) == r.id = id /\ r.is_available = TRUE

\* .single(): an error unless the query yields exactly one row
FetchResource(s, net) ==
  /\ route[s] = "/book"
  /\ bookView[s].loading
  /\ LET rows == {r \in resources : ResourceQuery(r, bookView[s].id)
                                       /\ ResourceReadable(r, user[s])}
         error == Failure(net, Cardinality(rows) = 1)
     IN /\ IF error # ""
           THEN Goto(s, "/resources", "")
           ELSE /\ bookView' = [bookView EXCEPT ![s] =
                                  [@ EXCEPT !.resource = CHOOSE r \in rows : TRUE,
                                            !.loading = FALSE]]
                /\ UNCHANGED << route, dashView, listView, addView >>
        /\ last' = [Event(s, "fetchResource", "resources", "select", 0, "", error,
                          IF error # "" THEN "Resource not found or unavailable" ELSE "")
                      EXCEPT !.rid = bookView[s].id]
  /\ UNCHANGED << resources, bookings, nextId, user, nextResource >>

\* the booking form is rendered: not loading and a resource is loaded
BookingFormShown(s) ==
  /\ route[s] = "/book"
  /\ ~bookView[s].loading
  /\ bookView[s].resource # Null

SetStartDate(s, value) ==
  /\ BookingFormShown(s)
  /\ bookView[s].startDate # value
  /\ bookView' = [bookView EXCEPT ![s].startDate = value]
  /\ last' = Idle
  /\ UNCHANGED << resources, bookings, nextId, user, route, dashView, listView,
               addView, nextResource >>

SetEndDate(s, value) ==
  /\ BookingFormShown(s)
  /\ bookView[s].endDate # value
  /\ bookView' = [bookView EXCEPT ![s].endDate = value]
  /\ last' = Idle
  /\ UNCHANGED << resources, bookings, nextId, user, route, dashView, listView,
               addView, nextResource >>

SetPaymentMethod(s, value) ==
  /\ BookingFormShown(s)
  /\ bookView[s].paymentMethod # value
  /\ bookView' = [bookView EXCEPT ![s].paymentMethod = value]
  /\ last' = Idle
  /\ UNCHANGED << resources, bookings, nextId, user, route, dashView, listView,
               addView, nextResource >>

calculateTotalPrice(s) ==
  IF bookView[s].startDate = EmptyStr \/ bookView[s].endDate = EmptyStr
       \/ bookView[s].resource = Null
  THEN 0
  ELSE LET start == getTime(bookView[s].startDate)
           end == getTime(bookView[s].endDate)
           days == Ceil(end - start, MsPerDay)
       IN Max(1, days) * bookView[s].resource.price

\* a payload that stores the request as already confirmed
BookingPayloadConfirmed(s) ==
  [resource_id |-> bookView[s].resource.id,
   renter_id |-> user[s],
   owner_id |-> bookView[s].resource.owner_id,
   start_time |-> bookView[s].startDate,
   end_time |-> bookView[s].endDate,
   payment_method |-> bookView[s].paymentMethod,
   total_price |-> calculateTotalPrice(s),
   status |-> "confirmed"]

\* the row handleBooking sends to .from("bookings").insert(...)
BookingPayload(s) ==
  [resource_id |-> bookView[s].resource.id,
   renter_id |-> user[s],
   owner_id |-> bookView[s].resource.owner_id,
   start_time |-> bookView[s].startDate,
   end_time |-> bookView[s].endDate,
   payment_method |-> bookView[s].paymentMethod,
   total_price |-> calculateTotalPrice(s),
   status |-> "pending"]

\* the stored row: id and created_at are column defaults
StoredBooking(payload) ==
  [id |-> nextId, created_at |-> nextId,
   resource_id |-> payload.resource_id, renter_id |-> payload.renter_id,
   owner_id |-> payload.owner_id, start_time |-> payload.start_time,
   end_time |-> payload.end_time, payment_method |-> payload.payment_method,
   total_price |-> payload.total_price, status |-> payload.status]

\* handleBooking without the own-resource check
IsOwnResourceUnchecked(s) == FALSE

\* resource.owner_id === user.id
IsOwnResource(s) == bookView[s].resource.owner_id = user[s]

\* submit of the booking form; both date fields are `required`
handleBooking(s, net) ==
  /\ BookingFormShown(s)
  /\ bookView[s].startDate # EmptyStr /\ bookView[s].endDate # EmptyStr
  /\ IsOwnResource(s) \/ nextId <= MaxBookings
  /\ IF user[s] = NoUser \/ bookView[s].resource = Null
     THEN /\ last' = Event(s, "handleBooking", "", "", 0, "", "", "")
          /\ UNCHANGED << resources, bookings, nextId, user, route, bookView, dashView, listView,
               addView, nextResource >>
     ELSE IF IsOwnResource(s)
     THEN /\ last' = Event(s, "handleBooking", "", "", 0, "", "",
                           "You cannot book your own resource")
          /\ UNCHANGED << resources, bookings, nextId, user, route, bookView, dashView, listView,
               addView, nextResource >>
     ELSE LET payload == BookingPayload(s)
              error == Failure(net, BookingInsertAccepted(StoredBooking(payload), user[s]))
          IN /\ bookings' = IF error # "" THEN bookings
                            ELSE bookings \cup {StoredBooking(payload)}
             /\ nextId' = IF error # "" THEN nextId ELSE nextId + 1
             /\ IF error # ""
                THEN UNCHANGED << route, bookView, dashView, listView, addView >>
                ELSE Goto(s, "/dashboard", "")
             /\ last' = Event(s, "handleBooking", "bookings", "insert", 0, payload.status,
                              error,
                              IF error # "" THEN "Failed to create booking"
                              ELSE "Booking request submitted successfully")
             /\ UNCHANGED << resources, user, nextResource >>

(***************************************************************************)
(* AddResource (add-resource form).                                        *)
(***************************************************************************)
\* the form fields, and what is typed into each of them
FormFields ==
  {"title", "description", "category", "price", "location",
   "availability_start", "availability_end"}

RequiredFields == FormFields \ {"description"}

TitleSaw == << "S", "a", "w" >>

FormInputs ==
  [title |-> {TitleSaw}, description |-> {DescRed}, category |-> {"Tools"},
   price |-> {<< "7" >>, << "1", "2" >>}, location |-> {LocOslo},
   availability_start |-> {Date(1, 0)}, availability_end |-> {Date(4, 0)}]

\* the value of an untouched field: "" (the select's value is a plain string)
Blank(name) == IF name = "category" THEN "" ELSE EmptyStr

\* handleInputChange: setFormData(prev => ({ ...prev, [name]: value }))
handleInputChange(s, name, value) ==
  /\ route[s] = "/add-resource"
  /\ addView[s].formData[name] # value
  /\ addView' = [addView EXCEPT ![s].formData[name] = value]
  /\ last' = Idle
  /\ UNCHANGED << resources, bookings, nextId, user, route, bookView, dashView,
                  listView, nextResource >>

Digits == << "0", "1", "2", "3", "4", "5", "6", "7", "8", "9" >>

DigitValue(c) == (CHOOSE i \in 1..Len(Digits) : Digits[i] = c) - 1

RECURSIVE Pow10(_)
Pow10(n) == IF n = 0 THEN 1 ELSE 10 * Pow10(n - 1)

\* parseFloat of the text of a number input holding a whole number
RECURSIVE parseFloat(_)
parseFloat(str) ==
  IF Len(str) = 1 THEN DigitValue(str[1])
  ELSE DigitValue(str[1]) * Pow10(Len(str) - 1) + parseFloat(Tail(str))

\* a payload that leaves the new resource unavailable
ResourcePayloadUnavailable(s) ==
  [title |-> addView[s].formData.title,
   description |-> addView[s].formData.description,
   category |-> addView[s].formData.category,
   location |-> addView[s].formData.location,
   availability_start |-> addView[s].formData.availability_start,
   availability_end |-> addView[s].formData.availability_end,
   price |-> parseFloat(addView[s].formData.price),
   owner_id |-> user[s],
   is_available |-> FALSE]

\* the row handleSubmit sends to .from("resources").insert(...)
ResourcePayload(s) ==
  [title |-> addView[s].formData.title,
   description |-> addView[s].formData.description,
   category |-> addView[s].formData.category,
   location |-> addView[s].formData.location,
   availability_start |-> addView[s].formData.availability_start,
   availability_end |-> addView[s].formData.availability_end,
   price |-> parseFloat(addView[s].formData.price),
   owner_id |-> user[s],
   is_available |-> TRUE]

\* ids of the rows inserted first, second, ... (gen_random_uuid())
AddedIds == << "r3", "r4", "r5" >>

\* the stored row: id and created_at are column defaults
StoredResource(payload) ==
  ResourceRow(AddedIds[nextResource], payload.owner_id, payload.is_available,
              payload.price, payload.title, payload.description,
              payload.category, payload.location,
              Cardinality(InitialResources) + nextResource)

\* a failed submit that clears the form
AfterFailedSubmitCleared(view) == AddInit

\* the form after the catch and finally blocks: only setLoading(false)
AfterFailedSubmit(view) == [view EXCEPT !.loading = FALSE]

\* the browser submits the form only when every required field is filled
FormValid(s) == \A name \in RequiredFields : addView[s].formData[name] # Blank(name)

\* submit of the add-resource form; the button is disabled while loading
handleSubmit(s, net) ==
  /\ route[s] = "/add-resource"
  /\ ~addView[s].loading
  /\ FormValid(s)
  /\ nextResource <= MaxResources
  /\ IF user[s] = NoUser
     THEN /\ Goto(s, "/auth", "")
          /\ last' = Event(s, "handleSubmit", "", "", 0, "", "", "")
          /\ UNCHANGED << resources, nextResource >>
     ELSE LET payload == ResourcePayload(s)
              row == StoredResource(payload)
              error == Failure(net, ResourceInsertAccepted(payload, user[s]))
          IN /\ resources' = IF error # "" THEN resources ELSE resources \cup {row}
             /\ nextResource' = IF error # "" THEN nextResource ELSE nextResource + 1
             /\ IF error # ""
                THEN /\ addView' = [addView EXCEPT ![s] = AfterFailedSubmit(@)]
                     /\ UNCHANGED << route, bookView, dashView, listView >>
                ELSE Goto(s, "/dashboard", "")
             /\ last' = [Event(s, "handleSubmit", "resources", "insert", 0, "", error,
                               IF error # "" THEN "Failed to add resource"
                               ELSE "Resource added successfully")
                         EXCEPT !.rid = IF error # "" THEN "" ELSE row.id]
  /\ UNCHANGED << bookings, nextId, user >>

(***************************************************************************)
(* Dashboard.                                                              *)
(***************************************************************************)
\* the three reads of fetchDashboardData, as the backend answers them
OwnedResources(uid) ==
  OrderDesc({r \in resources : r.owner_id = uid /\ ResourceReadable(r, uid)})

BookingsMade(uid) ==
  OrderDesc({WithJoin(b, uid) : b \in {x \in bookings : x.renter_id = uid /\ BookingReadable(x, uid)}})

\* a requests read that selects by renter_id
BookingsReceivedAsRenter(uid) ==
  OrderDesc({WithJoin(b, uid) : b \in {x \in bookings : x.renter_id = uid /\ BookingReadable(x, uid)}})

BookingsReceived(uid) ==
  OrderDesc({WithJoin(b, uid) : b \in {x \in bookings : x.owner_id = uid /\ BookingReadable(x, uid)}})

\* a load with one try block per read: a failed read does not skip the others
fetchDashboardDataEachRead(s, failAt) ==
  /\ route[s] = "/dashboard"
  /\ dashView[s].loading
  /\ IF user[s] = NoUser
     THEN /\ last' = Event(s, "fetchDashboardData", "", "", 0, "", "", "")
          /\ UNCHANGED dashView
     ELSE /\ dashView' = [dashView EXCEPT ![s] =
               [myResources |-> IF failAt = 1 THEN @.myResources
                                ELSE OwnedResources(user[s]),
                myBookings |-> IF failAt = 2 THEN @.myBookings
                               ELSE BookingsMade(user[s]),
                resourceBookings |-> IF failAt = 3 THEN @.resourceBookings
                                     ELSE BookingsReceived(user[s]),
                loading |-> FALSE]]
          /\ last' = [Event(s, "fetchDashboardData",
                            IF failAt = 1 THEN "resources" ELSE "bookings", "select",
                            0, "", IF failAt # 0 THEN "network" ELSE "",
                            IF failAt # 0 THEN "Failed to load dashboard data" ELSE "")
                       EXCEPT !.sent = IF failAt = 0 THEN 3 ELSE failAt]
  /\ UNCHANGED << resources, bookings, nextId, user, route, bookView, listView,
                  addView, nextResource >>

\* failAt = 0: every read succeeds; failAt = k: read k comes back with an
\* error, which throws to the catch block and skips the reads after it
fetchDashboardData(s, failAt) ==
  /\ route[s] = "/dashboard"
  /\ dashView[s].loading
  /\ IF user[s] = NoUser
     THEN /\ last' = Event(s, "fetchDashboardData", "", "", 0, "", "", "")
          /\ UNCHANGED dashView
     ELSE /\ dashView' = [dashView EXCEPT ![s] =
               [myResources |-> IF failAt = 1 THEN @.myResources
                                ELSE OwnedResources(user[s]),
                myBookings |-> IF failAt \in {1, 2} THEN @.myBookings
                               ELSE BookingsMade(user[s]),
                resourceBookings |-> IF failAt \in {1, 2, 3} THEN @.resourceBookings
                                     ELSE BookingsReceived(user[s]),
                loading |-> FALSE]]
          /\ last' = [Event(s, "fetchDashboardData",
                            IF failAt = 1 THEN "resources" ELSE "bookings", "select",
                            0, "", IF failAt # 0 THEN "network" ELSE "",
                            IF failAt # 0 THEN "Failed to load dashboard data" ELSE "")
                       EXCEPT !.sent = IF failAt = 0 THEN 3 ELSE failAt]
  /\ UNCHANGED << resources, bookings, nextId, user, route, bookView, listView,
               addView, nextResource >>

\* a Delete that takes the card off the list before the backend has answered
deleteResourceOptimistic(s, resourceId, net) ==
  /\ route[s] = "/dashboard"
  /\ ~dashView[s].loading
  /\ \E r \in Elems(dashView[s].myResources) : r.id = resourceId
  /\ LET error == Failure(net, TRUE)
         Kept(r) == r.id # resourceId
     IN /\ resources' = IF error # "" THEN resources
                        ELSE ResourcesAfterDelete(resourceId, user[s])
        /\ bookings' = IF error # "" THEN bookings
                       ELSE BookingsAfterDelete(resourceId, user[s])
        /\ dashView' = [dashView EXCEPT ![s].myResources = SelectSeq(@, Kept)]
        /\ last' = [Event(s, "deleteResource", "resources", "delete", 0, "", error,
                          IF error # "" THEN "Failed to delete resource"
                          ELSE "Resource deleted successfully")
                      EXCEPT !.rid = resourceId]
  /\ UNCHANGED << nextId, user, route, bookView, listView, addView, nextResource >>

\* the Delete button of a card of the "My Resources" tab
deleteResource(s, resourceId, net) ==
  /\ route[s] = "/dashboard"
  /\ ~dashView[s].loading
  /\ \E r \in Elems(dashView[s].myResources) : r.id = resourceId
  /\ LET error == Failure(net, TRUE)
         Kept(r) == r.id # resourceId
     IN /\ resources' = IF error # "" THEN resources
                        ELSE ResourcesAfterDelete(resourceId, user[s])
        /\ bookings' = IF error # "" THEN bookings
                       ELSE BookingsAfterDelete(resourceId, user[s])
        /\ dashView' = [dashView EXCEPT ![s].myResources =
                          IF error # "" THEN @ ELSE SelectSeq(@, Kept)]
        /\ last' = [Event(s, "deleteResource", "resources", "delete", 0, "", error,
                          IF error # "" THEN "Failed to delete resource"
                          ELSE "Resource deleted successfully")
                      EXCEPT !.rid = resourceId]
  /\ UNCHANGED << nextId, user, route, bookView, listView,
               addView, nextResource >>

\* the "Booking Requests" tab renders Accept and Reject for a booking
\* while its status in the view is "pending"
AcceptRejectOffered(s, bookingId) ==
  /\ route[s] = "/dashboard"
  /\ ~dashView[s].loading
  /\ \E b \in Elems(dashView[s].resourceBookings) :
        b.id = bookingId /\ b.status = "pending"

StatusToast(status) ==
  IF status = "confirmed" THEN "Booking confirmed successfully"
  ELSE "Booking rejected successfully"

\* a status update that patches the requests list before the backend answers
updateBookingStatusOptimistic(s, bookingId, status, net) ==
  /\ AcceptRejectOffered(s, bookingId)
  /\ LET error == Failure(net, BookingUpdateAccepted(bookingId, status, user[s]))
         Patch(booking) == IF booking.id = bookingId
                           THEN [booking EXCEPT !.status = status]
                           ELSE booking
     IN /\ bookings' = IF error # "" THEN bookings
                       ELSE BookingsAfterUpdate(bookingId, status, user[s])
        /\ dashView' = [dashView EXCEPT ![s].resourceBookings = MapSeq(@, Patch)]
        /\ last' = Event(s, "updateBookingStatus", "bookings", "update", bookingId,
                         status, error,
                         IF error # "" THEN "Failed to update booking" ELSE StatusToast(status))
  /\ UNCHANGED << resources, nextId, user, route, bookView, listView, addView,
                  nextResource >>

\* Accept: updateBookingStatus(id, "confirmed"); Reject: (id, "rejected")
updateBookingStatus(s, bookingId, status, net) ==
  /\ AcceptRejectOffered(s, bookingId)
  /\ LET error == Failure(net, BookingUpdateAccepted(bookingId, status, user[s]))
         Patch(booking) == IF booking.id = bookingId
                           THEN [booking EXCEPT !.status = status]
                           ELSE booking
     IN /\ bookings' = IF error # "" THEN bookings
                       ELSE BookingsAfterUpdate(bookingId, status, user[s])
        /\ dashView' = [dashView EXCEPT ![s].resourceBookings =
                          IF error # "" THEN @ ELSE MapSeq(@, Patch)]
        /\ last' = Event(s, "updateBookingStatus", "bookings", "update", bookingId,
                         status, error,
                         IF error # "" THEN "Failed to update booking" ELSE StatusToast(status))
  /\ UNCHANGED << resources, nextId, user, route, bookView, listView,
               addView, nextResource >>

(***************************************************************************)
(* The application.                                                        *)
(***************************************************************************)
Pages == {"/resources", "/book", "/dashboard"}

\* In Spec every booking is for the same window (25 hours) and is paid by
\* card, and the listing is not filtered: the form fields are exercised in
\* SpecForm and SpecListing below.
Next ==
  \E s \in Sessions :
    \/ \E path \in Pages, id \in ResourceIds :
         (path # "/book" => id = "r1") /\ Visit(s, path, id)
    \/ \E net \in BOOLEAN : FetchResources(s, net)
    \/ \E net \in BOOLEAN : FetchResource(s, net)
    \/ SetStartDate(s, WindowStart)
    \/ SetEndDate(s, WindowEnd)
    \/ \E net \in BOOLEAN : handleBooking(s, net)
    \/ \E failAt \in 0..3 : fetchDashboardData(s, failAt)
    \/ \E id \in ResourceIds, net \in BOOLEAN : deleteResource(s, id, net)
    \/ \E id \in 1..MaxBookings, status \in {"confirmed", "rejected"}, net \in BOOLEAN :
         updateBookingStatus(s, id, status, net)

Spec == Init /\ [][Next]_vars

(***************************************************************************)
(* The booking form with every field varied: one session opens the booking *)
(* view of either resource (both available here), types dates, picks a     *)
(* payment method and submits.                                             *)
(***************************************************************************)
FormResources ==
  {ResourceRow("r1", "u1", TRUE, 10, TitleDrill, DescRed, "Tools", LocOslo, 1),
   ResourceRow("r2", "u2", TRUE, 5, TitleBike, NullText, "Vehicles", LocRome, 2)}

\* "", 2025-01-02T00:00, 2025-01-03T01:00, 2025-01-05T00:00
FormDates == {EmptyStr, Date(1, 0), Date(2, 1), Date(4, 0)}

FormSessions == {"s1"}

InitForm ==
  /\ resources = FormResources
  /\ bookings = {}
  /\ nextId = 1
  /\ user \in {u \in SignedIn : u["s1"] # NoUser}
  /\ route = [s \in Sessions |-> "/"]
  /\ bookView = [s \in Sessions |-> BookInit("")]
  /\ dashView = [s \in Sessions |-> DashInit]
  /\ listView = [s \in Sessions |-> ListInit]
  /\ addView = [s \in Sessions |-> AddInit]
  /\ nextResource = 1
  /\ last = Idle

NextForm ==
  \E s \in FormSessions :
    \/ \E id \in ResourceIds : Visit(s, "/book", id)
    \/ \E net \in BOOLEAN : FetchResource(s, net)
    \/ \E value \in FormDates : SetStartDate(s, value)
    \/ \E value \in FormDates : SetEndDate(s, value)
    \/ \E value \in PaymentMethods : SetPaymentMethod(s, value)
    \/ \E net \in BOOLEAN :
         Cardinality(bookings) < MaxFormBookings /\ handleBooking(s, net)

SpecForm == InitForm /\ [][NextForm]_vars

(***************************************************************************)
(* The listing view with its filters: both sessions load the listing from  *)
(* one of three resource tables, type search terms and select categories.  *)
(***************************************************************************)
ListingTables == {InitialResources, FormResources, {}}

InitListing ==
  /\ resources \in ListingTables
  /\ bookings = {}
  /\ nextId = 1
  /\ user = [s1 |-> "u1", s2 |-> "u2"]
  /\ route = [s \in Sessions |-> "/"]
  /\ bookView = [s \in Sessions |-> BookInit("")]
  /\ dashView = [s \in Sessions |-> DashInit]
  /\ listView = [s \in Sessions |-> ListInit]
  /\ addView = [s \in Sessions |-> AddInit]
  /\ nextResource = 1
  /\ last = Idle

NextListing ==
  \E s \in Sessions :
    \/ Visit(s, "/resources", "")
    \/ \E net \in BOOLEAN : FetchResources(s, net)
    \/ \E term \in SearchTerms : SetSearchTerm(s, term)
    \/ \E cat \in CategoryInputs : SetSelectedCategory(s, cat)

SpecListing == InitListing /\ [][NextListing]_vars

(***************************************************************************)
(* The owner's side: the add-resource form, the dashboard and its Delete   *)
(* button, from a backend that already holds the request u2 made for r1.   *)
(* The form is filled in and submitted in the first session only.          *)
(***************************************************************************)
OwnerSignedIn == {[s1 |-> "u1", s2 |-> "u2"], [s1 |-> NoUser, s2 |-> "u2"]}

AllResourceIds == ResourceIds \cup Elems(AddedIds)

InitOwner ==
  /\ resources = InitialResources
  /\ bookings = {EarlierBooking}
  /\ nextId = 2
  /\ user \in OwnerSignedIn
  /\ route = [s \in Sessions |-> "/"]
  /\ bookView = [s \in Sessions |-> BookInit("")]
  /\ dashView = [s \in Sessions |-> DashInit]
  /\ listView = [s \in Sessions |-> ListInit]
  /\ addView = [s \in Sessions |-> AddInit]
  /\ nextResource = 1
  /\ last = Idle

NextOwner ==
  \E s \in Sessions :
    \/ \E path \in {"/add-resource", "/dashboard"} : Visit(s, path, "")
    \/ \E name \in FormFields : \E value \in FormInputs[name] :
         s \in FormSessions /\ handleInputChange(s, name, value)
    \/ \E net \in BOOLEAN : s \in FormSessions /\ handleSubmit(s, net)
    \/ \E failAt \in 0..3 : fetchDashboardData(s, failAt)
    \/ \E id \in AllResourceIds, net \in BOOLEAN : deleteResource(s, id, net)

SpecOwner == InitOwner /\ [][NextOwner]_vars

(***************************************************************************)
(* The row-level policies of public.resources under any statement: apart   *)
(* from the views, a client holding a session's token sends SELECT, UPDATE *)
(* and DELETE statements on resources straight to the backend, which       *)
(* answers them under the policies.  The dashboard is there to read the    *)
(* resource embedded in a booking.                                         *)
(***************************************************************************)
Identities == {"u1", "u2", "u3"}

\* SELECT * FROM resources WHERE id = rid
SelectResourceRow(s, rid) ==
  /\ last' = [Event(s, "select", "resources", "select", 0, "", "", "")
              EXCEPT !.rid = rid,
                     !.rows = {r \in resources : r.id = rid /\ ResourceReadable(r, user[s])}]
  /\ UNCHANGED << resources, bookings, nextId, user, route, bookView, dashView,
                  listView, addView, nextResource >>

\* UPDATE resources SET is_available = flag, owner_id = owner WHERE id = rid
UpdateResourceRow(s, rid, flag, owner) ==
  /\ LET error == Failure(TRUE, ResourceUpdateAccepted(rid, flag, owner, user[s]))
     IN /\ resources' = IF error # "" THEN resources
                        ELSE ResourcesAfterUpdate(rid, flag, owner, user[s])
        /\ last' = [Event(s, "update", "resources", "update", 0, "", error, "")
                    EXCEPT !.rid = rid]
  /\ UNCHANGED << bookings, nextId, user, route, bookView, dashView, listView,
                  addView, nextResource >>

\* DELETE FROM resources WHERE id = rid
DeleteResourceRow(s, rid) ==
  /\ resources' = ResourcesAfterDelete(rid, user[s])
  /\ bookings' = BookingsAfterDelete(rid, user[s])
  /\ last' = [Event(s, "delete", "resources", "delete", 0, "", "", "")
              EXCEPT !.rid = rid]
  /\ UNCHANGED << nextId, user, route, bookView, dashView, listView, addView,
                  nextResource >>

InitPolicy ==
  /\ resources = InitialResources
  /\ bookings = {EarlierBooking}
  /\ nextId = 2
  /\ user \in SignedIn
  /\ route = [s \in Sessions |-> "/"]
  /\ bookView = [s \in Sessions |-> BookInit("")]
  /\ dashView = [s \in Sessions |-> DashInit]
  /\ listView = [s \in Sessions |-> ListInit]
  /\ addView = [s \in Sessions |-> AddInit]
  /\ nextResource = 1
  /\ last = Idle

NextPolicy ==
  \E s \in Sessions :
    \/ \E rid \in ResourceIds : SelectResourceRow(s, rid)
    \/ \E rid \in ResourceIds, flag \in BOOLEAN, owner \in Identities :
         UpdateResourceRow(s, rid, flag, owner)
    \/ \E rid \in ResourceIds : DeleteResourceRow(s, rid)
    \/ Visit(s, "/dashboard", "")
    \/ \E failAt \in 0..3 : fetchDashboardData(s, failAt)
    \/ \E id \in ResourceIds, net \in BOOLEAN : deleteResource(s, id, net)

SpecPolicy == InitPolicy /\ [][NextPolicy]_vars

(***************************************************************************)
(* Booking while the resources table changes: the sessions open booking    *)
(* views and submit requests, and clients holding their tokens send        *)
(* UPDATE statements on resources (availability flag, owner) between a     *)
(* view's load and its submit.                                             *)
(***************************************************************************)
\* the owner of r1 and the owner of r2, or the owner of r2 and a third party
BookingSignedIn == {[s1 |-> "u1", s2 |-> "u2"], [s1 |-> "u2", s2 |-> "u3"]}

InitBooking ==
  /\ resources = InitialResources
  /\ bookings = {}
  /\ nextId = 1
  /\ user \in BookingSignedIn
  /\ route = [s \in Sessions |-> "/"]
  /\ bookView = [s \in Sessions |-> BookInit("")]
  /\ dashView = [s \in Sessions |-> DashInit]
  /\ listView = [s \in Sessions |-> ListInit]
  /\ addView = [s \in Sessions |-> AddInit]
  /\ nextResource = 1
  /\ last = Idle

NextBooking ==
  \E s \in Sessions :
    \/ \E id \in ResourceIds : Visit(s, "/book", id)
    \/ \E net \in BOOLEAN : FetchResource(s, net)
    \/ SetStartDate(s, WindowStart)
    \/ SetEndDate(s, WindowEnd)
    \/ \E net \in BOOLEAN : handleBooking(s, net)
    \/ \E rid \in ResourceIds, flag \in BOOLEAN, owner \in Identities :
         UpdateResourceRow(s, rid, flag, owner)

SpecBooking == InitBooking /\ [][NextBooking]_vars

(***************************************************************************)
(* Properties.                                                             *)
(***************************************************************************)
\* the row the owner's sessions start with, stored by handleBooking in a run
\* that started from the empty table
EarlierBookingStored ==
  /\ user = [s1 |-> "u1", s2 |-> "u2"]
  /\ bookings = {EarlierBooking}
  /\ nextId = 2

\* the handler run recorded in `last` reached the backend
Delivered(e) == e.table # "" /\ e.err # "network"

\* C1: when the owner rejects, from the requests view, a booking whose
\* stored status is "pending", and the request reaches the backend, the
\* booking's stored status is "rejected" afterwards.
C1_RejectStoresRejected ==
  [][\A s \in Sessions :
       (/\ last'.sess = s
        /\ last'.fn = "updateBookingStatus"
        /\ last'.status = "rejected"
        /\ Delivered(last')
        /\ \E b \in bookings :
             b.id = last'.id /\ b.status = "pending" /\ b.owner_id = user[s])
       => \E b \in bookings' : b.id = last'.id /\ b.status = "rejected"]_vars

\* the least whole number of days, at least one, that covers a span in ms
DaysCharged(span) ==
  CHOOSE n \in 1..10 :
    /\ n * MsPerDay >= span
    /\ \A m \in 1..(n - 1) : m * MsPerDay < span

PriceOf(resourceId) == (CHOOSE r \in resources : r.id = resourceId).price

\* C2: with both dates set, calculateTotalPrice is max(1, ceil(span / 1 day))
\* times the price (25 hours at 10 is 20, a zero or negative span is one
\* price, 2025-01-02 to 2025-01-05 at 5 is 15), and every stored booking's
\* total_price is that value for its own dates and resource.
C2_TotalPrice ==
  /\ \A s \in Sessions :
       (/\ BookingFormShown(s)
        /\ bookView[s].startDate # EmptyStr
        /\ bookView[s].endDate # EmptyStr)
       => LET span == getTime(bookView[s].endDate) - getTime(bookView[s].startDate)
              price == bookView[s].resource.price
              total == calculateTotalPrice(s)
          IN /\ total = DaysCharged(span) * price
             /\ span <= 0 => total = price
             /\ (span = 25 * MsPerHour /\ price = 10) => total = 20
             /\ (/\ bookView[s].startDate = Date(1, 0)
                 /\ bookView[s].endDate = Date(4, 0)
                 /\ price = 5) => total = 15
  /\ \A b \in bookings :
       b.total_price
         = DaysCharged(getTime(b.end_time) - getTime(b.start_time)) * PriceOf(b.resource_id)

\* a stored request for 2025-01-02 to 2025-01-05 on the resource priced 5
C2_Witness ==
  \E b \in bookings :
    /\ b.start_time = Date(1, 0) /\ b.end_time = Date(4, 0)
    /\ PriceOf(b.resource_id) = 5
    /\ b.total_price = 15

\* C3: a submit by the owner of the loaded resource sends no request and
\* leaves the bookings table alone, showing only the error toast; no stored
\* booking has renter_id = owner_id.
C3_OwnerCannotBook ==
  /\ [](\A b \in bookings : b.renter_id # b.owner_id)
  /\ [][\A s \in Sessions :
          (/\ last'.sess = s
           /\ last'.fn = "handleBooking"
           /\ BookingFormShown(s)
           /\ bookView[s].resource.owner_id = user[s])
          => /\ last'.table = ""
             /\ last'.toast = "You cannot book your own resource"
             /\ bookings' = bookings
             /\ route' = route]_vars

\* the owner of the loaded resource has just submitted the booking form
C3_Witness ==
  /\ last.fn = "handleBooking"
  /\ last.toast = "You cannot book your own resource"
  /\ BookingFormShown(last.sess)
  /\ bookView[last.sess].resource.owner_id = user[last.sess]
  /\ bookView[last.sess].startDate # EmptyStr

\* C4: a booking row that enters the table has status "pending".
C4_CreatedPending ==
  [][\A b \in bookings' :
       (~\E a \in bookings : a.id = b.id) => b.status = "pending"]_vars

\* a booking paid otherwise than by card has just been stored
C4_Witness ==
  /\ last.fn = "handleBooking" /\ last.err = "" /\ last.table = "bookings"
  /\ \E b \in bookings : b.payment_method # "card" /\ b.renter_id = user[last.sess]

\* C5: once an Accept or a Reject of a booking has reached the backend, the
\* requests view that sent it no longer offers Accept/Reject for the booking.
C5_NotOfferedAfterUpdate ==
  (last.fn = "updateBookingStatus" /\ Delivered(last))
    => ~AcceptRejectOffered(last.sess, last.id)

\* C6: a stored status "confirmed" or "rejected" never changes.
C6_FinalStatusKept ==
  [][\A a \in bookings : \A b \in bookings' :
       (a.id = b.id /\ a.status \in {"confirmed", "rejected"})
         => b.status = a.status]_vars

\* a Reject sent from a requests view that still showed "pending" for a
\* booking stored as "confirmed"
C6_Witness ==
  /\ last.fn = "updateBookingStatus" /\ last.status = "rejected" /\ Delivered(last)
  /\ \E b \in bookings : b.id = last.id /\ b.status = "confirmed"

\* two stored rows' windows share an instant
Overlap(a, b) ==
  /\ getTime(a.start_time) <= getTime(b.end_time)
  /\ getTime(b.start_time) <= getTime(a.end_time)

\* C7: a booking insert that reaches the backend for a resource that still
\* exists is stored as a new "pending" row of the submitting identity and
\* leaves every other row in place, whatever bookings the resource has.
C7_NoExclusion ==
  [][\A s \in Sessions :
       (/\ last'.sess = s
        /\ last'.fn = "handleBooking"
        /\ Delivered(last')
        /\ \E r \in resources : r.id = bookView[s].resource.id)
       => /\ last'.err = ""
          /\ bookings \subseteq bookings'
          /\ \E b \in bookings' \ bookings :
               /\ b.renter_id = user[s]
               /\ b.resource_id = bookView[s].resource.id
               /\ b.status = "pending"]_vars

\* two identities, neither the owner, hold pending requests for overlapping
\* windows on the same resource
C7_Witness ==
  \E a \in bookings, b \in bookings :
    /\ a.renter_id # b.renter_id
    /\ a.resource_id = b.resource_id
    /\ a.renter_id # a.owner_id /\ b.renter_id # b.owner_id
    /\ Overlap(a, b)
    /\ a.status = "pending" /\ b.status = "pending"

\* sub occurs in str: str is some prefix, then sub, then some suffix
IsSubstring(sub, str) ==
  \E a \in 0..Len(str), b \in 0..Len(str) :
    a <= b /\ b - a = Len(sub) /\ \A i \in 1..Len(sub) : str[a + i] = sub[i]

\* C8: the listing shows a fetched resource iff the lower-cased term occurs
\* in its lower-cased title, description (when it has one) or location, and
\* no category is selected or its category is the selected one.
C8_Filter ==
  \A s \in Sessions :
    LET shown == filteredResources(s)
        term == toLowerCase(listView[s].searchTerm)
        cat == listView[s].selectedCategory
        Included(r) ==
          /\ \/ IsSubstring(term, toLowerCase(r.title))
             \/ r.description # NullText /\ IsSubstring(term, toLowerCase(r.description))
             \/ IsSubstring(term, toLowerCase(r.location))
          /\ cat = "" \/ r.category = cat
    IN /\ \A r \in Elems(listView[s].resources) : r \in Elems(shown) <=> Included(r)
       /\ Elems(shown) \subseteq Elems(listView[s].resources)

\* an upper-case term and a category leave exactly one of two fetched cards
C8_Witness ==
  \E s \in Sessions :
    /\ Len(listView[s].resources) = 2
    /\ listView[s].searchTerm = << "O" >>
    /\ listView[s].selectedCategory = "Vehicles"
    /\ Len(filteredResources(s)) = 1
    /\ filteredResources(s)[1].description = NullText

\* C9: every resource the listing view holds has availability flag true.
C9_ListingAvailableOnly ==
  \A s \in Sessions : \A r \in Elems(listView[s].resources) : r.is_available = TRUE

\* a listing loaded by the owner of an unavailable resource, who may read it
C9_Witness ==
  \E s \in Sessions :
    /\ route[s] = "/resources" /\ ~listView[s].loading
    /\ listView[s].resources # << >>
    /\ \E r \in resources : r.is_available = FALSE /\ r.owner_id = user[s]

\* C10: a session with no identity never has the booking view mounted, never
\* runs fetchResource or handleBooking, and no booking row is stored for it.
C10_NoIdentityNoBooking ==
  \A s \in Sessions :
    user[s] = NoUser
      => /\ route[s] # "/book"
         /\ ~(last.sess = s /\ last.fn \in {"fetchResource", "handleBooking"})
         /\ ~(last.sess = s /\ last.table = "bookings")
         /\ \A b \in bookings : b.renter_id # user[s]

\* a visitor has just been redirected from the booking view to /auth
C10_Witness ==
  \E s \in Sessions :
    /\ user[s] = NoUser
    /\ last.sess = s /\ last.fn = "BookResource"
    /\ route[s] = "/auth"

\* C11: a successful deleteResource leaves the owned-resources list without
\* the deleted id and with every other card, a failed one leaves the list as
\* it was, and neither touches the bookings-made and booking-requests lists.
C11_DeleteListEffects ==
  [][\A s \in Sessions :
       (last'.sess = s /\ last'.fn = "deleteResource")
       => LET before == dashView[s].myResources
              after == dashView'[s].myResources
          IN /\ dashView'[s].myBookings = dashView[s].myBookings
             /\ dashView'[s].resourceBookings = dashView[s].resourceBookings
             /\ IF last'.err = ""
                THEN /\ \A r \in Elems(after) : r.id # last'.rid
                     /\ \A r \in Elems(before) : r.id # last'.rid => r \in Elems(after)
                     /\ Elems(after) \subseteq Elems(before)
                     /\ Len(after) = Len(before) - 1
                ELSE after = before]_vars

\* the owner of two resources has deleted the booked one: the other card is
\* kept and the requests list still shows the booking the cascade removed
C11_Witness ==
  /\ last.fn = "deleteResource" /\ last.err = ""
  /\ Len(dashView[last.sess].myResources) = 1
  /\ \E b \in Elems(dashView[last.sess].resourceBookings) : b.resource_id = last.rid
  /\ ~\E b \in bookings : b.resource_id = last.rid

\* C12: the booking view holds at most the one resource with the requested
\* id, loaded with availability flag true; a fetchResource that fails, or
\* that finds no available resource of that id, shows the error toast, goes
\* to the listing and leaves no resource and no booking form behind.
C12_BookingViewLoad ==
  /\ [](\A s \in Sessions :
          bookView[s].resource # Null
            => /\ bookView[s].resource.id = bookView[s].id
               /\ bookView[s].resource.is_available = TRUE)
  /\ [][\A s \in Sessions :
          (last'.sess = s /\ last'.fn = "fetchResource")
          => LET matches == {r \in resources :
                               r.id = bookView[s].id /\ r.is_available = TRUE}
             IN /\ last'.sent = 1
                /\ IF matches = {} \/ last'.err = "network"
                   THEN /\ last'.err # ""
                        /\ last'.toast = "Resource not found or unavailable"
                        /\ route'[s] = "/resources"
                        /\ bookView'[s].resource = Null
                        /\ ~BookingFormShown(s)'
                   ELSE /\ last'.err = "" /\ last'.toast = ""
                        /\ route'[s] = "/book"
                        /\ bookView'[s].resource \in matches]_vars

\* the owner of an unavailable resource, who may read its row, opened its
\* booking view and was sent to the listing
C12_Witness ==
  /\ last.fn = "fetchResource" /\ last.err = "backend"
  /\ route[last.sess] = "/resources"
  /\ bookView[last.sess].resource = Null
  /\ \E r \in resources :
       r.id = last.rid /\ r.is_available = FALSE /\ r.owner_id = user[last.sess]

\* C13: a session without identity never has the add-resource form and never
\* sends a resources insert (a submit without identity goes to /auth and
\* sends nothing); a submit with an identity sends one insert, and every
\* row that enters the resources table is owned by the submitting identity
\* and has availability flag true.
C13_AddResourceOwner ==
  /\ [](\A s \in Sessions :
          user[s] = NoUser
            => /\ route[s] # "/add-resource"
               /\ ~(last.sess = s /\ last.table = "resources" /\ last.op = "insert"))
  /\ [][\A s \in Sessions :
          (last'.sess = s /\ last'.fn = "handleSubmit")
          => IF user[s] = NoUser
             THEN last'.sent = 0 /\ route'[s] = "/auth" /\ resources' = resources
             ELSE /\ last'.sent = 1
                  /\ last'.table = "resources" /\ last'.op = "insert"
                  /\ resources \subseteq resources'
                  /\ last'.err = "" => Cardinality(resources' \ resources) = 1]_vars
  /\ [][\A r \in resources' \ resources :
          /\ last'.fn = "handleSubmit"
          /\ r.owner_id = user[last'.sess]
          /\ r.is_available = TRUE]_vars

\* u1 has just added a resource priced 12, stored as u1's and available
C13_Witness ==
  /\ last.fn = "handleSubmit" /\ last.err = ""
  /\ route[last.sess] = "/dashboard"
  /\ \E r \in resources :
       /\ r.id = last.rid /\ r.price = 12
       /\ r.owner_id = user[last.sess] /\ r.is_available = TRUE

\* C14: an add-resource submit whose insert succeeds goes to the dashboard;
\* one whose insert fails shows the error toast, stays on the form, stores
\* nothing, leaves every field as typed and the loading flag false, so that
\* the form can be submitted again.
C14_SubmitOutcome ==
  [][\A s \in Sessions :
       (last'.sess = s /\ last'.fn = "handleSubmit" /\ last'.sent = 1)
       => IF last'.err = ""
          THEN /\ route'[s] = "/dashboard"
               /\ last'.toast = "Resource added successfully"
          ELSE /\ last'.toast = "Failed to add resource"
               /\ route'[s] = "/add-resource"
               /\ resources' = resources
               /\ addView'[s].formData = addView[s].formData
               /\ addView'[s].loading = FALSE
               /\ FormValid(s)'
               /\ nextResource' <= MaxResources]_vars

\* a submit of the completed form has just failed in transit
C14_Witness ==
  /\ last.fn = "handleSubmit" /\ last.err = "network"
  /\ route[last.sess] = "/add-resource"
  /\ addView[last.sess].formData.description = DescRed
  /\ addView[last.sess].formData.price = << "1", "2" >>
  /\ addView[last.sess].formData.title = TitleSaw

\* ids of the rows a dashboard list holds
IdsOf(list) == {list[i].id : i \in 1..Len(list)}

\* C15: fetchDashboardData reads owned resources, bookings made and bookings
\* received in that order; when read k fails the lists of the reads before
\* k hold what the backend has, the lists of read k and of the later reads
\* are as before, reads after k are not sent, the one error toast is shown
\* and loading ends false.
C15_DashboardReads ==
  [][\A s \in Sessions :
       (last'.sess = s /\ last'.fn = "fetchDashboardData" /\ last'.sent > 0)
       => LET k == IF last'.err = "" THEN 4 ELSE last'.sent
              uid == user[s]
          IN /\ last'.sent \in 1..3
             /\ last'.err = "" => last'.sent = 3
             /\ last'.table = IF last'.sent = 1 THEN "resources" ELSE "bookings"
             /\ IF k > 1
                THEN IdsOf(dashView'[s].myResources)
                       = {r.id : r \in {x \in resources : x.owner_id = uid}}
                ELSE dashView'[s].myResources = dashView[s].myResources
             /\ IF k > 2
                THEN IdsOf(dashView'[s].myBookings)
                       = {b.id : b \in {x \in bookings : x.renter_id = uid}}
                ELSE dashView'[s].myBookings = dashView[s].myBookings
             /\ IF k > 3
                THEN IdsOf(dashView'[s].resourceBookings)
                       = {b.id : b \in {x \in bookings : x.owner_id = uid}}
                ELSE dashView'[s].resourceBookings = dashView[s].resourceBookings
             /\ last'.toast = IF k <= 3 THEN "Failed to load dashboard data" ELSE ""
             /\ dashView'[s].loading = FALSE]_vars

\* the second read failed for an identity that owns a resource and has made
\* a booking: the resources are listed, the booking is not
C15_Witness ==
  /\ last.fn = "fetchDashboardData" /\ last.sent = 2 /\ last.err # ""
  /\ dashView[last.sess].myResources # << >>
  /\ dashView[last.sess].myBookings = << >>
  /\ ~dashView[last.sess].loading
  /\ \E b \in bookings : b.renter_id = user[last.sess]

\* C16: the requests list of a session holds only bookings whose owner_id is
\* the session's identity; every status update is sent for a booking of that
\* list by the booking's owner_id; and a stored status changes in no other
\* way, so never from the renter's bookings-made list.
C16_UpdatesByOwner ==
  /\ [](\A s \in Sessions :
          \A b \in Elems(dashView[s].resourceBookings) : b.owner_id = user[s])
  /\ [][\A s \in Sessions :
          (last'.sess = s /\ last'.fn = "updateBookingStatus")
          => /\ \E b \in Elems(dashView[s].resourceBookings) : b.id = last'.id
             /\ \A b \in bookings : b.id = last'.id => b.owner_id = user[s]]_vars
  /\ [][\A a \in bookings : \A b \in bookings' :
          (a.id = b.id /\ a.status # b.status)
          => /\ last'.fn = "updateBookingStatus"
             /\ last'.id = a.id
             /\ user[last'.sess] = a.owner_id]_vars

\* the owner has accepted a request that its renter's bookings-made list
\* still shows as pending
C16_Witness ==
  /\ last.fn = "updateBookingStatus" /\ last.err = ""
  /\ \E b \in bookings :
       /\ b.id = last.id /\ b.status = "confirmed"
       /\ b.owner_id = user[last.sess] /\ b.renter_id # user[last.sess]
       /\ \E s \in Sessions :
            /\ user[s] = b.renter_id
            /\ \E m \in Elems(dashView[s].myBookings) :
                 m.id = b.id /\ m.status = "pending"

\* C17: a SELECT on resources answers with a row iff the row's availability
\* flag is true or the requesting identity is its owner, so a row with the
\* flag false reaches nobody but its owner; and the resource embedded in a
\* booking that the dashboard reads is present iff the row is readable so.
C17_ResourceReadability ==
  /\ [](last.fn = "select"
          => \A r \in last.rows :
               r.is_available = FALSE => r.owner_id = user[last.sess])
  /\ [][last'.fn = "select"
          => \A r \in resources :
               r.id = last'.rid
                 => (r \in last'.rows
                       <=> (r.is_available = TRUE \/ r.owner_id = user[last'.sess]))]_vars
  /\ [][\A s \in Sessions :
          (last'.sess = s /\ last'.fn = "fetchDashboardData" /\ last'.err = "")
          => \A b \in Elems(dashView'[s].myBookings) :
               b.resources # Null
                 <=> \E r \in resources :
                       /\ r.id = b.resource_id
                       /\ (r.is_available = TRUE \/ r.owner_id = user[s])]_vars

\* a SELECT by another identity for a row whose flag is false came back
\* empty, although the row exists
C17_Witness ==
  /\ last.fn = "select" /\ last.rows = {}
  /\ user[last.sess] # NoUser
  /\ \E r \in resources :
       /\ r.id = last.rid /\ r.is_available = FALSE
       /\ r.owner_id # user[last.sess]

\* C18: a resources row changes or disappears only in a step in which the
\* identity that is its owner_id updates or deletes it; an UPDATE or DELETE
\* sent by any other identity leaves the row as it was.
C18_OwnerOnlyMutation ==
  [][/\ \A r \in resources :
          r \notin resources'
            => /\ last'.table = "resources"
               /\ last'.op \in {"update", "delete"}
               /\ last'.rid = r.id
               /\ user[last'.sess] = r.owner_id
     /\ (last'.table = "resources" /\ last'.op \in {"update", "delete"})
          => \A r \in resources : r.owner_id # user[last'.sess] => r \in resources']_vars

\* an identity that can read another identity's available resource has sent
\* a DELETE for it, which reported no error, and the row is still there
C18_Witness ==
  /\ last.fn = "delete" /\ last.err = ""
  /\ user[last.sess] # NoUser
  /\ \E r \in resources :
       /\ r.id = last.rid /\ r.is_available = TRUE
       /\ r.owner_id # user[last.sess]

\* C19: a fetchResources that fails leaves the listing with an empty list, so
\* with no card under any search term and category, shows the one error
\* toast and ends loading; the fetch runs once per mount, and a mounted
\* listing that has finished loading keeps its list.
C19_ListingFetchFailure ==
  /\ [][\A s \in Sessions :
          (last'.sess = s /\ last'.fn = "fetchResources" /\ last'.err # "")
          => /\ listView'[s].resources = << >>
             /\ filteredResources(s)' = << >>
             /\ last'.toast = "Failed to load resources"
             /\ last'.sent = 1
             /\ listView'[s].loading = FALSE
             /\ route'[s] = "/resources"]_vars
  /\ [][\A s \in Sessions :
          (last'.sess = s /\ last'.fn = "fetchResources")
          => listView[s].loading /\ ~listView'[s].loading]_vars
  /\ [][\A s \in Sessions :
          (~listView[s].loading /\ ~listView'[s].loading)
          => listView'[s].resources = listView[s].resources]_vars

\* after a failed load the listing shows nothing for a typed term and a
\* selected category, although the backend holds available resources
C19_Witness ==
  \E s \in Sessions :
    /\ route[s] = "/resources" /\ ~listView[s].loading
    /\ listView[s].resources = << >>
    /\ listView[s].searchTerm = << "O" >>
    /\ listView[s].selectedCategory = "Tools"
    /\ filteredResources(s) = << >>
    /\ \E r \in resources :
         /\ r.is_available = TRUE
         /\ matchesSearch(r, listView[s].searchTerm)
         /\ matchesCategory(r, listView[s].selectedCategory)

\* C20: no stored booking has status "cancelled" or "completed", and every
\* stored status is one the CHECK on bookings.status lists.
C20_NoCancelledCompleted ==
  \A b \in bookings :
    /\ b.status \notin {"cancelled", "completed"}
    /\ b.status \in {"pending", "confirmed", "cancelled", "completed"}

\* bookings were created, one was accepted and a resource was deleted: a
\* confirmed booking is stored next to a pending one
C20_Witness ==
  /\ last.fn = "deleteResource" /\ last.err = ""
  /\ \E a \in bookings, b \in bookings :
       a.status = "confirmed" /\ b.status = "pending"

\* C21: every stored booking references a stored resource, and the step in
\* which a resource row disappears leaves no booking of that resource in the
\* bookings table (whatever the deleting dashboard's requests list shows).
C21_CascadeDelete ==
  /\ [](\A b \in bookings : \E r \in resources : r.id = b.resource_id)
  /\ [][\A r \in resources :
          (~\E x \in resources' : x.id = r.id)
          => ~\E b \in bookings' : b.resource_id = r.id]_vars

\* the dashboard that deleted a resource still lists a request for it, a
\* request the bookings table no longer holds
C21_Witness ==
  /\ last.fn = "deleteResource" /\ last.err = ""
  /\ ~\E r \in resources : r.id = last.rid
  /\ \E b \in Elems(dashView[last.sess].resourceBookings) :
       /\ b.resource_id = last.rid
       /\ ~\E x \in bookings : x.id = b.id

\* C22: an updateBookingStatus that comes back with an error leaves the
\* stored bookings and the requests list as they were, shows the one error
\* toast and sends nothing more; the status of an entry of a loaded requests
\* list changes only in an updateBookingStatus step without error, only for
\* the entry with the id of the request, and to the status requested.
C22_UpdateFailure ==
  /\ [][\A s \in Sessions :
          (last'.sess = s /\ last'.fn = "updateBookingStatus")
          => LET before == dashView[s].resourceBookings
                 after == dashView'[s].resourceBookings
             IN /\ last'.sent = 1
                /\ Len(after) = Len(before)
                /\ IF last'.err # ""
                   THEN /\ bookings' = bookings
                        /\ after = before
                        /\ last'.toast = "Failed to update booking"
                   ELSE \A i \in 1..Len(before) :
                          after[i] = IF before[i].id = last'.id
                                     THEN [before[i] EXCEPT !.status = last'.status]
                                     ELSE before[i]]_vars
  /\ [][\A s \in Sessions :
          (~dashView[s].loading /\ ~dashView'[s].loading)
          => \A i \in 1..Len(dashView[s].resourceBookings) :
               \A j \in 1..Len(dashView'[s].resourceBookings) :
                 (/\ dashView[s].resourceBookings[i].id = dashView'[s].resourceBookings[j].id
                  /\ dashView[s].resourceBookings[i].status
                       # dashView'[s].resourceBookings[j].status)
                 => /\ last'.sess = s
                    /\ last'.fn = "updateBookingStatus"
                    /\ last'.err = ""
                    /\ last'.id = dashView[s].resourceBookings[i].id]_vars

\* the backend has refused a status update: the booking is pending in the
\* table and in the requests list that sent it
C22_Witness ==
  /\ last.fn = "updateBookingStatus" /\ last.err = "backend"
  /\ last.toast = "Failed to update booking"
  /\ \E b \in bookings : b.id = last.id /\ b.status = "pending"
  /\ \E b \in Elems(dashView[last.sess].resourceBookings) :
       b.id = last.id /\ b.status = "pending"

\* C23: a stored booking's owner_id is the owner_id of the stored resource
\* its resource_id references, whenever that resource row is stored.
C23_BookingOwnerIsResourceOwner ==
  \A b \in bookings : \A r \in resources :
    r.id = b.resource_id => b.owner_id = r.owner_id

\* the owner of a booked resource has tried to hand the resource to another
\* identity and the backend has refused the update
C23_Witness ==
  /\ last.fn = "update" /\ last.err = "backend"
  /\ \E b \in bookings : \E r \in resources :
       /\ b.resource_id = last.rid /\ r.id = last.rid
       /\ r.owner_id = user[last.sess]
       /\ b.renter_id # b.owner_id

\* C24: the booking view loads a resource as the table holds it, with
\* availability flag true; a booking insert is sent only for the resource so
\* loaded, and when it reaches the backend and the resource row still exists
\* it is stored, whatever the row's availability flag is by then.
C24_AvailabilityAtLoadOnly ==
  /\ [][\A s \in Sessions :
          (last'.sess = s /\ last'.fn = "fetchResource" /\ last'.err = "")
          => /\ bookView'[s].resource \in resources
             /\ bookView'[s].resource.is_available = TRUE]_vars
  /\ [][\A s \in Sessions :
          (last'.sess = s /\ last'.fn = "handleBooking" /\ last'.table = "bookings")
          => /\ bookView[s].resource.is_available = TRUE
             /\ (/\ Delivered(last')
                 /\ \E r \in resources : r.id = bookView[s].resource.id)
                => /\ last'.err = ""
                   /\ \E b \in bookings' \ bookings :
                        b.resource_id = bookView[s].resource.id]_vars

\* a request has just been stored for a resource whose availability flag
\* the owner had set to false after the renter's view loaded it
C24_Witness ==
  /\ last.fn = "handleBooking" /\ last.err = "" /\ last.table = "bookings"
  /\ \E b \in bookings : \E r \in resources :
       /\ b.id = nextId - 1
       /\ b.renter_id = user[last.sess]
       /\ r.id = b.resource_id
       /\ r.is_available = FALSE

=============================================================================
